---------------------------- MODULE Spec2Model ----------------------------
(***************************************************************************)
(* A model of src/src/y_map.rs: the YMap binding of y-py.                  *)
(*                                                                         *)
(* A YMap wraps SharedType<Map, HashMap<String, PyObject>>: it is either   *)
(* Prelim (a local HashMap) or Integrated (a handle into the shared        *)
(* document, every access going through a transaction).  The methods of    *)
(* the pymethods block dispatch on that tag.  The document engine (yrs),   *)
(* the transaction type and the value marshalling are not part of          *)
(* y_map.rs; they are modelled from the specification's sections 3, 5, 6.  *)
(***************************************************************************)
EXTENDS Integers, Sequences, FiniteSets, TLC

\* ------------------------------------------------------------------ bounds
\* Python values stored in the model are the integers 1..MaxVal.
MaxVal == 2
\* Number of items of the dict handed to YMap(dict).
MaxDict == 2

\* ------------------------------------------------------------ value domains
\* Key strings; the empty string is a string like any other (key: &str).
KeyStrs == {"a", ""}
\* A Python object passed as a key: a str, or something that is not a str.
KeyArgs == {[str |-> TRUE, s |-> k] : k \in KeyStrs} \cup {[str |-> FALSE, s |-> "7"]}
PyValues == 1..MaxVal
\* py.None()
PyNone == 0
\* The txn argument: a YTransaction, or nothing that is one (None / omitted).
NoTxn == "none"
Txn == "txn"

\* Error kinds (all of them are exceptions raised at the call site).
NoErr == "ok"
MissingTransaction == "MissingTransaction"
InvalidKey == "InvalidKey"
AlreadyShared == "AlreadyShared"

\* Option<T>
None_ == [some |-> FALSE, v |-> 0]
Some(x) == [some |-> TRUE, v |-> x]

\* ------------------------------------------- std::collections::HashMap model
\* A HashMap<String, PyObject> is a sequence of <<key, value>> slots with
\* pairwise different keys; the slot order is the (unspecified) storage order.
HMIndex(h, k) ==
    IF \E i \in 1..Len(h) : h[i][1] = k
    THEN CHOOSE i \in 1..Len(h) : h[i][1] = k
    ELSE 0

\* Mutant: insert never looks for the key and always takes a new slot.
HMInsert_alwaysAppend(h, k, v) == Append(h, <<k, v>>)

HMInsert(h, k, v) ==
    LET i == HMIndex(h, k)
    IN  IF i = 0 THEN Append(h, <<k, v>>) ELSE [h EXCEPT ![i] = <<k, v>>]

\* Mutant: remove of a missing key drops the last slot.
HMRemove_popMissing(h, k) ==
    LET i == IF \E j \in 1..Len(h) : h[j][1] = k
             THEN CHOOSE j \in 1..Len(h) : h[j][1] = k ELSE Len(h)
    IN  IF i = 0 THEN h ELSE SubSeq(h, 1, i - 1) \o SubSeq(h, i + 1, Len(h))

HMRemove(h, k) ==
    LET i == HMIndex(h, k)
    IN  IF i = 0 THEN h ELSE SubSeq(h, 1, i - 1) \o SubSeq(h, i + 1, Len(h))

HMGet(h, k) ==
    LET i == HMIndex(h, k)
    IN  IF i = 0 THEN None_ ELSE Some(h[i][2])

HMLen(h) == Len(h)

\* ------------------------------------------------ Python dict (PyDict) model
EmptyDict == [k \in {} |-> 0]
DictSetItem(d, k, v) == [x \in (DOMAIN d) \cup {k} |-> IF x = k THEN v ELSE d[x]]
DictDelItem(d, k) == [x \in (DOMAIN d) \ {k} |-> d[x]]

\* ------------------------------------------------- document engine (yrs Map)
\* The engine stores marshalled values; PyValueWrapper marshals a Python value
\* on the way in and into_py unmarshals it on the way out.
ToEngine(v) == [any |-> v]
ToPython(a) == a.any

\* The live entries of the shared map as seen by a transaction: a function
\* from the present keys to engine values.
EmptyMap == [k \in {} |-> ToEngine(0)]
mapLen(m) == Cardinality(DOMAIN m)
mapGet(m, k) == IF k \in DOMAIN m THEN Some(m[k]) ELSE None_
mapInsert(m, k, a) == [x \in (DOMAIN m) \cup {k} |-> IF x = k THEN a ELSE m[x]]
mapRemove(m, k) == [x \in (DOMAIN m) \ {k} |-> m[x]]
mapToJson(m) == [k \in DOMAIN m |-> ToPython(m[k])]
\* engine.attach(detachedTable): the table's entries become the shared map's.
RECURSIVE attachTable(_, _)
attachTable(m, h) ==
    IF h = <<>> THEN m
    ELSE attachTable(mapInsert(m, h[1][1], ToEngine(h[1][2])), Tail(h))

\* ------------------------------------------------------------ SharedType
Prelim(h) == [tag |-> "Prelim", map |-> h]
Integrated == [tag |-> "Integrated", map |-> <<>>]

\* ------------------------------------------------------------ YMap methods
\* Each method is a function of the receiver (self.0), the view `tv` of the
\* shared map held by the transaction passed, and the arguments.  A method
\* that may write returns the new receiver and the new view.

\* YMap::new: one insert per item of the dict, in the dict's order; a key
\* that is not a str fails the downcast and no YMap is built.
RECURSIVE newLoop(_, _)
newLoop(map, items) ==
    IF items = <<>> THEN [ok |-> TRUE, self |-> Prelim(map)]
    ELSE IF ~items[1][1].str THEN [ok |-> FALSE, self |-> Prelim(<<>>)]
    ELSE newLoop(HMInsert(map, items[1][1].s, items[1][2]), Tail(items))

YMap_new(dict) == newLoop(<<>>, dict)

\* impl From<Map> for YMap
YMap_from == Integrated

\* Mutant: the Prelim branch of length adds the entries the transaction sees.
YMap_length_countsTxn(self, tv) ==
    IF self.tag = "Integrated" THEN mapLen(tv) ELSE HMLen(self.map) + mapLen(tv)

\* Mutant: prelim answers true whatever the variant.
YMap_prelim_alwaysTrue(self) == TRUE

YMap_prelim(self) == self.tag = "Prelim"

YMap_length(self, tv) ==
    IF self.tag = "Integrated" THEN mapLen(tv) ELSE HMLen(self.map)

RECURSIVE toDict(_, _)
toDict(d, h) ==
    IF h = <<>> THEN d ELSE toDict(DictSetItem(d, h[1][1], h[1][2]), Tail(h))

\* Mutant: the Prelim branch returns the dict without filling it.
YMap_to_json_unfilled(self, tv) ==
    IF self.tag = "Integrated" THEN mapToJson(tv) ELSE EmptyDict

YMap_to_json(self, tv) ==
    IF self.tag = "Integrated" THEN mapToJson(tv) ELSE toDict(EmptyDict, self.map)

\* Mutant: set leaves the map with the one entry it stores.
YMap_set_dropsOthers(self, tv, key, value) ==
    IF self.tag = "Integrated"
    THEN [self |-> self, tv |-> mapInsert(EmptyMap, key, ToEngine(value))]
    ELSE [self |-> Prelim(<<<<key, value>>>>), tv |-> tv]

\* Mutant: set keeps the value already stored under the key.
YMap_set_keepOld(self, tv, key, value) ==
    IF self.tag = "Integrated"
    THEN [self |-> self,
          tv |-> IF key \in DOMAIN tv THEN tv ELSE mapInsert(tv, key, ToEngine(value))]
    ELSE [self |-> Prelim(IF HMIndex(self.map, key) /= 0 THEN self.map
                          ELSE Append(self.map, <<key, value>>)),
          tv |-> tv]

YMap_set(self, tv, key, value) ==
    IF self.tag = "Integrated"
    THEN [self |-> self, tv |-> mapInsert(tv, key, ToEngine(value))]
    ELSE [self |-> Prelim(HMInsert(self.map, key, value)), tv |-> tv]

\* Mutant: the Integrated branch removes nothing.
YMap_delete_integratedNoop(self, tv, key) ==
    IF self.tag = "Integrated"
    THEN [self |-> self, tv |-> tv]
    ELSE [self |-> Prelim(HMRemove(self.map, key)), tv |-> tv]

YMap_delete(self, tv, key) ==
    IF self.tag = "Integrated"
    THEN [self |-> self, tv |-> mapRemove(tv, key)]
    ELSE [self |-> Prelim(HMRemove(self.map, key)), tv |-> tv]

YMap_get(self, tv, key) ==
    IF self.tag = "Integrated"
    THEN LET o == mapGet(tv, key) IN IF o.some THEN ToPython(o.v) ELSE PyNone
    ELSE LET o == HMGet(self.map, key) IN IF o.some THEN o.v ELSE PyNone

\* ------------------------------------------------------------ YMapIterator
\* An iterator keeps raw pointers (lifetime erased to 'static) to the table
\* (Prelim) or to the shared map and the transaction (Integrated).  `seen` is
\* its position; `st` says what became of what it points at: "live", "stale"
\* (the storage was written or consumed since) or "closed" (the transaction
\* ended).
\* Beside them `h` keeps what the iterator has done since entries made it,
\* for the properties to speak of: the entries at its creation (snap), the
\* pairs it returned (got), whether it has ended (done), and whether it went
\* wrong (bad): it returned a pair that was no entry at its creation, or the
\* same pair twice, or a pair after it had ended, or it ended before it had
\* returned every entry, or it crashed.  `bad` is kept alone once set.
NoHist == [snap |-> {}, got |-> {}, done |-> FALSE, bad |-> FALSE]
BadHist == [snap |-> {}, got |-> {}, done |-> FALSE, bad |-> TRUE]
Pairs(d) == {<<k, d[k]>> : k \in DOMAIN d}
HistNew(d) == [snap |-> Pairs(d), got |-> {}, done |-> FALSE, bad |-> FALSE]

NoIter == [kind |-> "None", seen |-> {}, st |-> "live", h |-> NoHist]

YMap_entries(self) ==
    IF self.tag = "Integrated"
    THEN [kind |-> "Integrated", seen |-> {}, st |-> "live", h |-> NoHist]
    ELSE [kind |-> "Prelim", seen |-> {}, st |-> "live", h |-> NoHist]

\* A write to the storage an iterator points into leaves it dangling.
IterAfterWrite(it, changed) ==
    IF it.kind /= "None" /\ it.st = "live" /\ changed
    THEN [it EXCEPT !.st = "stale", !.seen = {}]
    ELSE it

\* The end of the transaction leaves an Integrated iterator's txn pointer
\* dangling.
IterAfterClose(it) ==
    IF it.kind = "Integrated" THEN [it EXCEPT !.st = "closed", !.seen = {}] ELSE it

\* What __next__ may return.
Stop == [tag |-> "stop", k |-> "", v |-> PyNone]
Crash == [tag |-> "crash", k |-> "", v |-> PyNone]
Item(k, v) == [tag |-> "item", k |-> k, v |-> v]

\* The entries the iterator walks over, as a dict.
IterSource(it, self, tv) ==
    IF it.kind = "Integrated" THEN mapToJson(tv) ELSE toDict(EmptyDict, self.map)

\* The history after __next__ returned r.
HistNext(h, r) ==
    IF h.bad THEN h
    ELSE IF r.tag = "item"
    THEN IF <<r.k, r.v>> \in h.snap \ h.got /\ ~h.done
         THEN [h EXCEPT !.got = @ \cup {<<r.k, r.v>>}]
         ELSE BadHist
    ELSE IF r.tag = "stop"
    THEN IF h.got = h.snap THEN [h EXCEPT !.done = TRUE] ELSE BadHist
    ELSE BadHist

\* YMapIterator::__iter__: the iterator itself.
YMapIterator_iter(it) == it

\* YMapIterator::__next__: the set of possible <<result, iterator after>>.
\* No check precedes the dereference: on a dangling pointer the behaviour is
\* undefined and any result is possible.
YMapIterator_next(it, self, tv) ==
    IF it.st = "live"
    THEN LET src == IterSource(it, self, tv)
             rest == (DOMAIN src) \ it.seen
         IN  IF rest = {} THEN {<<Stop, it>>}
             ELSE {<<Item(k, src[k]), [it EXCEPT !.seen = @ \cup {k}]>> : k \in rest}
    ELSE {<<r, it>> : r \in {Stop, Crash} \cup {Item(k, v) : k \in KeyStrs, v \in PyValues}}

\* -------------------------------------------- the pyo3 method wrappers
\* pyo3 extracts the arguments in order before it runs the method body: a txn
\* that is no YTransaction, or a key that is no str, raises at the call site
\* and the body does not run.
Ret(err, res, self, tv) == [err |-> err, res |-> res, self |-> self, tv |-> tv]

\* Mutant: length takes an optional txn and reads without one.
py_length_optionalTxn(self, tv, t) == Ret(NoErr, YMap_length(self, tv), self, tv)

py_length(self, tv, t) ==
    IF t = NoTxn THEN Ret(MissingTransaction, 0, self, tv)
    ELSE Ret(NoErr, YMap_length(self, tv), self, tv)

py_to_json(self, tv, t) ==
    IF t = NoTxn THEN Ret(MissingTransaction, 0, self, tv)
    ELSE Ret(NoErr, YMap_to_json(self, tv), self, tv)

\* Mutant: the key is converted with str() and stored before its type is
\* checked.
py_set_storeThenCheck(self, tv, t, key, value) ==
    IF t = NoTxn THEN Ret(MissingTransaction, 0, self, tv)
    ELSE LET r == YMap_set(self, tv, key.s, value)
         IN  IF ~key.str THEN Ret(InvalidKey, 0, r.self, r.tv)
             ELSE Ret(NoErr, 0, r.self, r.tv)

py_set(self, tv, t, key, value) ==
    IF t = NoTxn THEN Ret(MissingTransaction, 0, self, tv)
    ELSE IF ~key.str THEN Ret(InvalidKey, 0, self, tv)
    ELSE LET r == YMap_set(self, tv, key.s, value) IN Ret(NoErr, 0, r.self, r.tv)

py_delete(self, tv, t, key) ==
    IF t = NoTxn THEN Ret(MissingTransaction, 0, self, tv)
    ELSE IF ~key.str THEN Ret(InvalidKey, 0, self, tv)
    ELSE LET r == YMap_delete(self, tv, key.s) IN Ret(NoErr, 0, r.self, r.tv)

\* Mutant: get raises for a key with no entry (dict-style KeyError).
py_get_raisesOnMissing(self, tv, t, key) ==
    IF t = NoTxn THEN Ret(MissingTransaction, 0, self, tv)
    ELSE IF ~key.str THEN Ret(InvalidKey, 0, self, tv)
    ELSE IF YMap_get(self, tv, key.s) = PyNone THEN Ret("KeyError", 0, self, tv)
    ELSE Ret(NoErr, YMap_get(self, tv, key.s), self, tv)

\* Mutant: get stores None under a key that has no entry.
py_get_storesNone(self, tv, t, key) ==
    IF t = NoTxn THEN Ret(MissingTransaction, 0, self, tv)
    ELSE IF ~key.str THEN Ret(InvalidKey, 0, self, tv)
    ELSE IF YMap_get(self, tv, key.s) /= PyNone
    THEN Ret(NoErr, YMap_get(self, tv, key.s), self, tv)
    ELSE Ret(NoErr, PyNone, YMap_set(self, tv, key.s, PyNone).self,
             YMap_set(self, tv, key.s, PyNone).tv)

py_get(self, tv, t, key) ==
    IF t = NoTxn THEN Ret(MissingTransaction, 0, self, tv)
    ELSE IF ~key.str THEN Ret(InvalidKey, 0, self, tv)
    ELSE Ret(NoErr, YMap_get(self, tv, key.s), self, tv)

py_entries(self, tv, t, it) ==
    IF t = NoTxn THEN Ret(MissingTransaction, it, self, tv)
    ELSE Ret(NoErr, YMap_entries(self), self, tv)

\* ------------------------------------------------------------ YMapEvent
\* The document engine's side of an event (yrs MapEvent): the changes of the
\* shared map in the committing transaction, from the map's entries `before`
\* the transaction and `after` it, as the slots of a HashMap from key to
\* EntryChange.
Inserted(new) == [tag |-> "Inserted", old |-> ToEngine(0), new |-> new]
Updated(old, new) == [tag |-> "Updated", old |-> old, new |-> new]
Removed(old) == [tag |-> "Removed", old |-> old, new |-> ToEngine(0)]

ChangedKeys(before, after) ==
    {k \in (DOMAIN before) \cup (DOMAIN after) :
        \/ k \notin DOMAIN before
        \/ k \notin DOMAIN after
        \/ before[k] /= after[k]}

EntryChange(before, after, k) ==
    IF k \notin DOMAIN before THEN Inserted(after[k])
    ELSE IF k \notin DOMAIN after THEN Removed(before[k])
    ELSE Updated(before[k], after[k])

RECURSIVE changeSlots(_, _, _)
changeSlots(before, after, ks) ==
    IF ks = {} THEN <<>>
    ELSE LET k == CHOOSE x \in ks : TRUE
         IN  <<<<k, EntryChange(before, after, k)>>>>
                 \o changeSlots(before, after, ks \ {k})

eventKeys(before, after) == changeSlots(before, after, ChangedKeys(before, after))

\* A field a Python dict does not have ('undefined').
Undefined == -1

\* into_py of an EntryChange: the dict {action, oldValue, newValue}.
ChangeToPy(c) ==
    IF c.tag = "Inserted"
    THEN [action |-> "add", oldValue |-> Undefined, newValue |-> ToPython(c.new)]
    ELSE IF c.tag = "Removed"
    THEN [action |-> "delete", oldValue |-> ToPython(c.old), newValue |-> Undefined]
    ELSE [action |-> "update", oldValue |-> ToPython(c.old), newValue |-> ToPython(c.new)]

\* The cached fields of a YMapEvent: Option<PyObject>.
NoTarget == [some |-> FALSE, v |-> ""]
NoKeys == [some |-> FALSE, v |-> EmptyDict]

\* A YMapEvent: `st` says what its raw pointers (inner, txn) point at: "live"
\* while the commit that made it runs, "closed" after, "none" when Python
\* holds no event.  nT and nK count the reads of the engine's event made for
\* target and for keys.
NoEvent == [st |-> "none", target |-> NoTarget, keys |-> NoKeys, nT |-> 0, nK |-> 0]

YMapEvent_new == [st |-> "live", target |-> NoTarget, keys |-> NoKeys, nT |-> 0, nK |-> 0]

\* YMapEvent::target: the cached object, or YMap::from(inner.target()),
\* cached.  `innerTarget` is what the inner pointer gives when it is read.
YMapEvent_target(e, innerTarget) ==
    IF e.target.some THEN [res |-> e.target.v, ev |-> e]
    ELSE [res |-> innerTarget,
          ev |-> [e EXCEPT !.target = [some |-> TRUE, v |-> innerTarget],
                           !.nT = @ + 1]]

RECURSIVE keysLoop(_, _)
keysLoop(result, slots) ==
    IF slots = <<>> THEN result
    ELSE keysLoop(DictSetItem(result, slots[1][1], ChangeToPy(slots[1][2])),
                  Tail(slots))

\* Mutant: keys is computed, returned and not stored.
YMapEvent_keys_noStore(e, innerKeys) ==
    IF e.keys.some THEN [res |-> e.keys.v, ev |-> e]
    ELSE [res |-> keysLoop(EmptyDict, innerKeys), ev |-> [e EXCEPT !.nK = @ + 1]]

\* Mutant: the loop over the changes stops after the first one.
YMapEvent_keys_firstOnly(e, innerKeys) ==
    IF e.keys.some THEN [res |-> e.keys.v, ev |-> e]
    ELSE LET r == keysLoop(EmptyDict, SubSeq(innerKeys, 1, 1))
         IN  [res |-> r,
              ev |-> [e EXCEPT !.keys = [some |-> TRUE, v |-> r], !.nK = @ + 1]]

\* YMapEvent::keys: the cached dict, or a dict filled from inner.keys(txn),
\* cached.  `innerKeys` is what the inner and txn pointers give when read.
YMapEvent_keys(e, innerKeys) ==
    IF e.keys.some THEN [res |-> e.keys.v, ev |-> e]
    ELSE LET r == keysLoop(EmptyDict, innerKeys)
         IN  [res |-> r,
              ev |-> [e EXCEPT !.keys = [some |-> TRUE, v |-> r], !.nK = @ + 1]]

\* What a read through the dangling pointers of a closed event may give.
GarbageTargets == {"Integrated", "garbage"}
GarbageKeys ==
    {<<>>, <<<<"a", Inserted(ToEngine(1))>>>>}

\* Mutant: the commit calls one observer, whatever their number.
ToNotify_firstOnly(self, before, after, nobs) ==
    IF self.tag = "Integrated" /\ ChangedKeys(before, after) /= {} /\ nobs > 0
    THEN 1 ELSE 0

\* The observers the engine calls at commit: all of the map's observers when
\* the map is shared and was changed in the transaction, none otherwise.
ToNotify(self, before, after, nobs) ==
    IF self.tag = "Integrated" /\ ChangedKeys(before, after) /= {} THEN nobs ELSE 0

\* ------------------------------------------------------------------- state
VARIABLES
    ymap,   \* self.0 of the YMap: Prelim(table) or Integrated
    doc,    \* the shared map's entries as committed in the document
    view,   \* the shared map's entries as seen by the open transaction
    open,   \* whether the document has an open transaction
    iter,   \* the YMapIterator the caller holds (NoIter: none)
    ref,    \* reference table: what an ordinary dict holds after the same
            \* new/set/delete calls on the Prelim map
    last,   \* the last call: its arguments, its outcome, the state before it
    obs,    \* number of observers registered on the map
    phase,  \* "idle", or "commit" while a commit calls the observers
    pending,\* observers the running commit has still to call
    fired,  \* observer calls made for the current transaction
    ev      \* the YMapEvent the Python side holds (NoEvent: none)

vars == <<ymap, doc, view, open, iter, ref, last, obs, phase, pending, fired, ev>>
evvars == <<obs, phase, pending, fired, ev>>

\* Number of observers that may be registered.
MaxObs == 2

\* The dicts handed to YMap(dict), as item sequences in iteration order; the
\* keys of a dict are pairwise different objects.
Items == KeyArgs \X PyValues
Dicts ==
    {d \in UNION {[1..n -> Items] : n \in 0..MaxDict} :
        \A i, j \in DOMAIN d : i /= j => d[i][1] /= d[j][1]}

\* The mapping a dict with str keys denotes.
DictOf(d) ==
    [k \in {d[i][1].s : i \in DOMAIN d} |->
        (LET i == CHOOSE i \in DOMAIN d : d[i][1].s = k IN d[i][2])]

NoKey == [str |-> TRUE, s |-> ""]
Pre == [self |-> ymap, view |-> view, doc |-> doc]

\* The keys with a live entry.
LiveKeys(self, tv) ==
    IF self.tag = "Integrated" THEN DOMAIN tv
    ELSE {self.map[i][1] : i \in DOMAIN self.map}

\* What a get, length or delete call follows: the call right before it when
\* that was a set or delete that returned normally (with the length and the
\* key's presence before that call), nothing to speak of otherwise.
NoAfter == [op |-> "none", key |-> "", val |-> PyNone, len |-> 0, had |-> FALSE]
After ==
    IF last.op \in {"set", "delete"} /\ last.err = NoErr
    THEN [op |-> last.op, key |-> last.key.s, val |-> last.val,
          len |-> Cardinality(LiveKeys(last.pre.self, last.pre.view)),
          had |-> last.key.s \in LiveKeys(last.pre.self, last.pre.view)]
    ELSE NoAfter

Call(op, t, key, val, err, res) ==
    [op |-> op, t |-> t, key |-> key, val |-> val, err |-> err, res |-> res,
     pre |-> Pre,
     after |-> IF op \in {"get", "length", "delete"} THEN After ELSE NoAfter,
     it |-> IF op \in {"next", "iter"} THEN iter ELSE NoIter]

\* The transactions a caller can pass: none, or a YTransaction.  An
\* Integrated map is only accessed through the document's open transaction
\* (the document store's contract); a Prelim map belongs to no document and
\* takes any YTransaction.
TxnArgs ==
    IF ymap.tag = "Integrated" /\ ~open THEN {NoTxn} ELSE {NoTxn, Txn}

Init ==
    /\ doc = EmptyMap
    /\ view = EmptyMap
    /\ open = FALSE
    /\ iter = NoIter
    /\ obs = 0
    /\ phase = "idle"
    /\ pending = 0
    /\ fired = 0
    /\ ev = NoEvent
    /\ \/ \E d \in Dicts :
            /\ YMap_new(d).ok
            /\ ymap = YMap_new(d).self
            /\ ref = DictOf(d)
            /\ last = [op |-> "new", t |-> NoTxn, key |-> NoKey, val |-> PyNone,
                       err |-> NoErr, res |-> 0,
                       pre |-> [self |-> ymap, view |-> EmptyMap, doc |-> EmptyMap],
                       after |-> NoAfter, it |-> NoIter]
       \/ /\ ymap = YMap_from
          /\ ref = EmptyDict
          /\ last = [op |-> "from", t |-> NoTxn, key |-> NoKey, val |-> PyNone,
                     err |-> NoErr, res |-> 0,
                     pre |-> [self |-> ymap, view |-> EmptyMap, doc |-> EmptyMap],
                       after |-> NoAfter, it |-> NoIter]

\* ------------------------------------------------- transactions (document)
Begin ==
    /\ phase = "idle"
    /\ ~open
    /\ open' = TRUE
    /\ view' = doc
    /\ fired' = 0
    /\ ev' = NoEvent
    /\ last' = Call("begin", Txn, NoKey, PyNone, NoErr, 0)
    /\ UNCHANGED <<ymap, doc, iter, ref, obs, phase, pending>>

\* A commit that has no observer to call.
Commit ==
    /\ phase = "idle"
    /\ open
    /\ ToNotify(ymap, doc, view, obs) = 0
    /\ doc' = view
    /\ open' = FALSE
    /\ iter' = IterAfterClose(iter)
    /\ last' = Call("commit", Txn, NoKey, PyNone, NoErr, 0)
    /\ UNCHANGED <<ymap, view, ref>>
    /\ UNCHANGED evvars

\* A discard that publishes the buffered writes all the same.
Discard_publishes ==
    /\ phase = "idle"
    /\ open
    /\ doc' = view
    /\ open' = FALSE
    /\ iter' = IterAfterClose(iter)
    /\ last' = Call("discard", Txn, NoKey, PyNone, NoErr, 0)
    /\ UNCHANGED <<ymap, view, ref>>
    /\ UNCHANGED evvars

\* Dropping the transaction without committing: its buffered writes are
\* thrown away.
Discard ==
    /\ phase = "idle"
    /\ open
    /\ view' = doc
    /\ open' = FALSE
    /\ iter' = IterAfterClose(iter)
    /\ last' = Call("discard", Txn, NoKey, PyNone, NoErr, 0)
    /\ UNCHANGED <<ymap, doc, ref>>
    /\ UNCHANGED evvars

\* Nesting the map into a shared parent inside the open transaction.
attach(self, tv) ==
    IF self.tag = "Prelim"
    THEN Ret(NoErr, 0, Integrated, attachTable(EmptyMap, self.map))
    ELSE Ret(AlreadyShared, 0, self, tv)

Attach ==
    /\ phase = "idle"
    /\ open
    /\ LET r == attach(ymap, view)
       IN  /\ ymap' = r.self
           /\ view' = r.tv
           /\ iter' = IterAfterWrite(iter, r.self /= ymap)
           /\ ref' = IF r.err = NoErr THEN EmptyDict ELSE ref
           /\ last' = Call("attach", Txn, NoKey, PyNone, r.err, 0)
    /\ UNCHANGED <<doc, open>>
    /\ UNCHANGED evvars

\* ---------------------------------------------------------- YMap calls
Prelim_ ==
    /\ last' = Call("prelim", NoTxn, NoKey, PyNone, NoErr, YMap_prelim(ymap))
    /\ UNCHANGED <<ymap, doc, view, open, iter, ref>>
    /\ UNCHANGED evvars

Length ==
    \E t \in TxnArgs :
        LET r == py_length(ymap, view, t)
        IN  /\ last' = Call("length", t, NoKey, PyNone, r.err, r.res)
            /\ ymap' = r.self
            /\ view' = r.tv
            /\ UNCHANGED <<doc, open, iter, ref>>
            /\ UNCHANGED evvars

ToJson ==
    \E t \in TxnArgs :
        LET r == py_to_json(ymap, view, t)
        IN  /\ last' = Call("to_json", t, NoKey, PyNone, r.err, r.res)
            /\ ymap' = r.self
            /\ view' = r.tv
            /\ UNCHANGED <<doc, open, iter, ref>>
            /\ UNCHANGED evvars

Set ==
    /\ phase = "idle"
    /\ \E t \in TxnArgs, key \in KeyArgs, value \in PyValues :
            LET r == py_set(ymap, view, t, key, value)
            IN  /\ ymap' = r.self
                /\ view' = r.tv
                /\ iter' = IterAfterWrite(iter, r.self /= ymap \/ r.tv /= view)
                /\ ref' = IF r.err = NoErr /\ ymap.tag = "Prelim"
                          THEN DictSetItem(ref, key.s, value) ELSE ref
                /\ last' = Call("set", t, key, value, r.err, 0)
                /\ UNCHANGED <<doc, open>>
                /\ UNCHANGED evvars

Delete ==
    /\ phase = "idle"
    /\ \E t \in TxnArgs, key \in KeyArgs :
            LET r == py_delete(ymap, view, t, key)
            IN  /\ ymap' = r.self
                /\ view' = r.tv
                /\ iter' = IterAfterWrite(iter, r.self /= ymap \/ r.tv /= view)
                /\ ref' = IF r.err = NoErr /\ ymap.tag = "Prelim"
                          THEN DictDelItem(ref, key.s) ELSE ref
                /\ last' = Call("delete", t, key, PyNone, r.err, 0)
                /\ UNCHANGED <<doc, open>>
                /\ UNCHANGED evvars

Get ==
    \E t \in TxnArgs, key \in KeyArgs :
        LET r == py_get(ymap, view, t, key)
        IN  /\ last' = Call("get", t, key, PyNone, r.err, r.res)
            /\ ymap' = r.self
            /\ view' = r.tv
            /\ UNCHANGED <<doc, open, iter, ref>>
            /\ UNCHANGED evvars

Entries ==
    \E t \in TxnArgs :
        LET r == py_entries(ymap, view, t, iter)
        IN  /\ iter' = IF r.err = NoErr
                       THEN [r.res EXCEPT !.h = HistNew(IterSource(r.res, ymap, view))]
                       ELSE r.res
            /\ last' = Call("entries", t, NoKey, PyNone, r.err, 0)
            /\ ymap' = r.self
            /\ view' = r.tv
            /\ UNCHANGED <<doc, open, ref>>
            /\ UNCHANGED evvars

IterNext ==
    /\ iter.kind /= "None"
    /\ \E o \in YMapIterator_next(iter, ymap, view) :
        /\ iter' = [o[2] EXCEPT !.h = HistNext(@, o[1])]
        /\ last' = Call("next", NoTxn, NoKey, PyNone, NoErr, o[1])
    /\ UNCHANGED <<ymap, doc, view, open, ref>>
    /\ UNCHANGED evvars

IterIter ==
    /\ iter.kind /= "None"
    /\ iter' = YMapIterator_iter(iter)
    /\ last' = Call("iter", NoTxn, NoKey, PyNone, NoErr, 0)
    /\ UNCHANGED <<ymap, doc, view, open, ref>>
    /\ UNCHANGED evvars

\* ------------------------------------------------- observers and events
\* YMap.observe: one more observer on the shared map.
Observe ==
    /\ phase = "idle"
    /\ ymap.tag = "Integrated"
    /\ obs < MaxObs
    /\ obs' = obs + 1
    /\ last' = Call("observe", NoTxn, NoKey, PyNone, NoErr, 0)
    /\ UNCHANGED <<ymap, doc, view, open, iter, ref, phase, pending, fired, ev>>

\* A commit that has observers to call: it calls them one by one, each with a
\* new YMapEvent, and returns after the last.
CommitStart ==
    /\ open
    /\ phase = "idle"
    /\ ToNotify(ymap, doc, view, obs) > 0
    /\ phase' = "commit"
    /\ pending' = ToNotify(ymap, doc, view, obs)
    /\ last' = Call("commit_start", Txn, NoKey, PyNone, NoErr, 0)
    /\ UNCHANGED <<ymap, doc, view, open, iter, ref, obs, fired, ev>>

Notify ==
    /\ phase = "commit"
    /\ pending > 0
    /\ pending' = pending - 1
    /\ fired' = fired + 1
    /\ ev' = YMapEvent_new
    /\ last' = Call("notify", Txn, NoKey, PyNone, NoErr, 0)
    /\ UNCHANGED <<ymap, doc, view, open, iter, ref, obs, phase>>

CommitEnd ==
    /\ phase = "commit"
    /\ pending = 0
    /\ phase' = "idle"
    /\ doc' = view
    /\ open' = FALSE
    /\ iter' = IterAfterClose(iter)
    /\ ev' = IF ev.st = "live" THEN [ev EXCEPT !.st = "closed"] ELSE ev
    /\ last' = Call("commit", Txn, NoKey, PyNone, NoErr, 0)
    /\ UNCHANGED <<ymap, view, ref, obs, pending, fired>>

\* The target getter of the event held.  A live event reads the engine's
\* event; a closed one reads through a dangling pointer.
EvTarget ==
    /\ ev.st \in {"live", "closed"}
    /\ \E inner \in (IF ev.st = "live" THEN {"Integrated"} ELSE GarbageTargets) :
        LET r == YMapEvent_target(ev, inner)
        IN  /\ ev' = r.ev
            /\ last' = Call("target", NoTxn, NoKey, PyNone, NoErr, r.res)
    /\ UNCHANGED <<ymap, doc, view, open, iter, ref, obs, phase, pending, fired>>

\* The keys getter of the event held.
EvKeys ==
    /\ ev.st \in {"live", "closed"}
    /\ \E inner \in (IF ev.st = "live" THEN {eventKeys(doc, view)} ELSE GarbageKeys) :
        LET r == YMapEvent_keys(ev, inner)
        IN  /\ ev' = r.ev
            /\ last' = Call("keys", NoTxn, NoKey, PyNone, NoErr, r.res)
    /\ UNCHANGED <<ymap, doc, view, open, iter, ref, obs, phase, pending, fired>>

\* The map and its transactions, without iterators.
Next ==
    \/ Begin \/ Commit \/ Discard \/ Attach
    \/ Prelim_ \/ Length \/ ToJson \/ Set \/ Delete \/ Get

Spec == Init /\ [][Next]_vars

\* The map, its transactions and an iterator over its entries.
NextIter ==
    \/ Begin \/ Commit \/ Discard \/ Attach
    \/ Set \/ Delete
    \/ Entries \/ IterNext \/ IterIter

SpecIter == Init /\ [][NextIter]_vars

\* The map, its transactions, its observers and the events they are given.
\* While a commit calls the observers nothing else runs but their reading of
\* the event.
NextEvent ==
    \/ Begin \/ Commit \/ Discard \/ Attach \/ Set \/ Delete \/ Observe
    \/ CommitStart \/ Notify \/ CommitEnd
    \/ EvTarget \/ EvKeys

SpecEvent == Init /\ [][NextEvent]_vars

\* ===================================================================
\* Properties
\* ===================================================================
Ok == last.err = NoErr
Reads == {"prelim", "length", "to_json", "get"}
PreGet(k) == YMap_get(last.pre.self, last.pre.view, k)
NowGet(k) == YMap_get(ymap, view, k)

\* C1 (read-your-writes): in either state, a get of key k that follows a
\* set(txn, k, v) returns v; the calls that may come in between without
\* writing k (reads, writes of other keys) leave the value under k alone.
C1_ReadYourWrites ==
    /\ (last.op = "get" /\ Ok /\ last.after.op = "set" /\ last.after.key = last.key.s)
            => last.res = last.after.val
    /\ (last.op \in {"set", "delete"} /\ Ok)
            => \A k \in KeyStrs \ {last.key.s} : NowGet(k) = PreGet(k)
    /\ (last.op \in Reads) => \A k \in KeyStrs : NowGet(k) = PreGet(k)

\* An Integrated map whose key held another value: set, then get.
C1_Witness ==
    /\ last.op = "get" /\ Ok /\ ymap.tag = "Integrated"
    /\ last.after.op = "set" /\ last.after.key = last.key.s /\ last.after.had
    /\ last.res = 2

\* C2: after delete(txn, k) a get(txn, k) yields absent (None), and length is
\* one less than before the delete if k was present, the same if it was not.
C2_DeleteThenGetAndLength ==
    /\ (last.op = "get" /\ Ok /\ last.after.op = "delete" /\ last.after.key = last.key.s)
            => last.res = PyNone
    /\ (last.op = "length" /\ Ok /\ last.after.op = "delete")
            => last.res = last.after.len - (IF last.after.had THEN 1 ELSE 0)

\* length right after the delete of a key that was present, Integrated.
C2_Witness ==
    /\ last.op = "length" /\ Ok /\ ymap.tag = "Integrated"
    /\ last.after.op = "delete" /\ last.after.had /\ last.after.len = 2
    /\ last.res = 1

\* C3 (delete is idempotent): a delete(txn, k) right after a delete(txn, k)
\* changes nothing: same entries, same length, same get results.
C3_DeleteIdempotent ==
    (last.op = "delete" /\ Ok /\ last.after.op = "delete" /\ last.after.key = last.key.s)
        => /\ ymap = last.pre.self /\ view = last.pre.view /\ doc = last.pre.doc
           /\ YMap_to_json(ymap, view) = YMap_to_json(last.pre.self, last.pre.view)
           /\ YMap_length(ymap, view) = YMap_length(last.pre.self, last.pre.view)
           /\ \A k \in KeyStrs : NowGet(k) = PreGet(k)

\* The second of two deletes of a key that the first one removed, another
\* entry being left.
C3_Witness ==
    /\ last.op = "delete" /\ Ok
    /\ last.after.op = "delete" /\ last.after.key = last.key.s /\ last.after.had
    /\ LiveKeys(ymap, view) /= {}

\* C4: a Prelim (Detached) map is an ordinary table: to_json returns the
\* mapping a reference dict holds after the same new/set/delete calls, and
\* length its number of keys.
C4_DetachedIsTable ==
    /\ (last.op = "to_json" /\ Ok /\ ymap.tag = "Prelim") => last.res = ref
    /\ (last.op = "length" /\ Ok /\ ymap.tag = "Prelim")
            => last.res = Cardinality(DOMAIN ref)

\* The scenario's end: of two entries one was just deleted, the entry set to
\* 2 is left, and length is asked.
C4_Witness ==
    /\ last.op = "length" /\ Ok /\ ymap.tag = "Prelim"
    /\ last.after.op = "delete" /\ last.after.had /\ last.after.len = 2
    /\ last.res = 1 /\ DOMAIN ref = {""} /\ ref[""] = 2

\* C5 (iterator safety): an iterator made by entries(txn) on an Integrated map
\* cannot be advanced after txn has closed: __next__ then reports an error and
\* reads nothing.
C5_IteratorSafety ==
    (last.op = "next" /\ last.it.kind = "Integrated" /\ last.it.st = "closed")
        => last.res.tag = "error"

\* C6: Prelim -> Integrated is one-way and happens once: an Integrated map
\* stays Integrated, prelim() is false from then on, and every further attach
\* fails with AlreadyShared and changes nothing.
C6_AttachOnce ==
    /\ last.pre.self.tag = "Integrated" => ymap.tag = "Integrated"
    /\ (last.op = "prelim" /\ ymap.tag = "Integrated") => last.res = FALSE
    /\ (last.op = "attach" /\ last.pre.self.tag = "Prelim")
            => (Ok /\ ymap.tag = "Integrated")
    /\ (last.op = "attach" /\ last.pre.self.tag = "Integrated")
            => /\ last.err = AlreadyShared
               /\ ymap = last.pre.self /\ view = last.pre.view

\* prelim() asked of an attached map that holds entries.
C6_Witness ==
    /\ last.op = "prelim" /\ last.res = FALSE
    /\ ymap.tag = "Integrated" /\ LiveKeys(ymap, view) /= {}

\* C7: get(txn, k) of a key with no live entry returns None and raises
\* nothing, in both states.
C7_GetMissing ==
    (/\ last.op = "get" /\ last.t = Txn /\ last.key.str
     /\ last.key.s \notin LiveKeys(last.pre.self, last.pre.view))
        => (Ok /\ last.res = PyNone)

\* get of a key right after its delete, the map holding another entry.
C7_Witness ==
    /\ last.op = "get" /\ Ok /\ last.res = PyNone
    /\ last.after.op = "delete" /\ last.after.key = last.key.s /\ last.after.had
    /\ LiveKeys(ymap, view) /= {}

\* C8: a set or delete that fails leaves the map as it was: same variant,
\* same keys, same values, same length.
C8_FailedWriteNoEffect ==
    (last.op \in {"set", "delete"} /\ ~Ok)
        => /\ ymap = last.pre.self /\ view = last.pre.view /\ doc = last.pre.doc
           /\ YMap_length(ymap, view) = YMap_length(last.pre.self, last.pre.view)
           /\ YMap_to_json(ymap, view) = YMap_to_json(last.pre.self, last.pre.view)

\* A set with a key that is no str, inside a transaction, on a map that
\* holds entries.
C8_Witness ==
    /\ last.op = "set" /\ last.err = InvalidKey /\ last.t = Txn
    /\ LiveKeys(ymap, view) /= {}

\* Every stored key is a string and occurs once.
KeysUnique ==
    /\ LiveKeys(ymap, view) \subseteq KeyStrs
    /\ ymap.tag = "Prelim"
            => \A i, j \in DOMAIN ymap.map : i /= j => ymap.map[i][1] /= ymap.map[j][1]
    /\ YMap_length(ymap, view) = Cardinality(LiveKeys(ymap, view))

\* C9 as stated: every stored key is a non-empty string and occurs once; a
\* set with the empty key is rejected with InvalidKey.
C9_KeysNonEmptyUnique ==
    /\ KeysUnique
    /\ "" \notin LiveKeys(ymap, view)
    /\ (last.op = "set" /\ last.t = Txn /\ last.key = [str |-> TRUE, s |-> ""])
            => last.err = InvalidKey

\* C9 amended: every stored key is a string (the empty string included) and
\* occurs once; a set with a key that is no str is rejected, a set with the
\* empty key is accepted and stores it.
C9_KeysStringsUnique ==
    /\ KeysUnique
    /\ (last.op = "set" /\ last.t = Txn /\ ~last.key.str)
            => (last.err = InvalidKey /\ ymap = last.pre.self /\ view = last.pre.view)
    /\ (last.op = "set" /\ last.t = Txn /\ last.key = [str |-> TRUE, s |-> ""])
            => (Ok /\ "" \in LiveKeys(ymap, view))

\* A set of a key that is already stored, beside the empty key.
C9_Witness ==
    /\ last.op = "set" /\ Ok /\ ymap.tag = "Prelim"
    /\ last.key.s = "a" /\ "a" \in LiveKeys(last.pre.self, last.pre.view)
    /\ "" \in LiveKeys(ymap, view)

\* C10: on an Integrated map, length, to_json, get, set, delete and entries
\* called without a transaction fail with MissingTransaction and neither read
\* nor write the shared document.
C10_MissingTransaction ==
    /\ (/\ last.pre.self.tag = "Integrated" /\ last.t = NoTxn
        /\ last.op \in {"length", "to_json", "get", "set", "delete"})
            => /\ last.err = MissingTransaction
               /\ ymap = last.pre.self /\ view = last.pre.view /\ doc = last.pre.doc
    /\ ymap.tag = "Integrated"
            => LET r == py_entries(ymap, view, NoTxn, iter)
               IN  /\ r.err = MissingTransaction
                   /\ r.res = iter /\ r.self = ymap /\ r.tv = view

\* length called without a transaction on an Integrated map with entries,
\* while a transaction is open.
C10_Witness ==
    /\ last.op = "length" /\ last.t = NoTxn /\ last.err = MissingTransaction
    /\ ymap.tag = "Integrated" /\ open /\ LiveKeys(ymap, view) /= {}

\* ------------------------------------------------ transactions and events
\* C11: discarding a transaction that set or deleted entries of the shared map
\* leaves the document as it was before the transaction, so that the next
\* transaction starts from the same entries (same get, length and to_json),
\* and no observer is called for it.
C11_DiscardNoEffect ==
    /\ (last.op \in {"set", "delete"} /\ last.pre.self.tag = "Integrated")
            => doc = last.pre.doc
    /\ last.op = "discard"
            => /\ doc = last.pre.doc /\ view = doc
               /\ phase = "idle" /\ fired = 0 /\ ev = NoEvent
               /\ \A k \in KeyStrs :
                    YMap_get(ymap, view, k) = YMap_get(ymap, last.pre.doc, k)
               /\ YMap_length(ymap, view) = YMap_length(ymap, last.pre.doc)
               /\ YMap_to_json(ymap, view) = YMap_to_json(ymap, last.pre.doc)
    /\ last.op = "begin" => view = doc

\* A transaction that changed the observed shared map is discarded.
C11_Witness ==
    /\ last.op = "discard" /\ last.pre.self.tag = "Integrated"
    /\ last.pre.view /= last.pre.doc /\ obs > 0

\* C12: a commit calls every observer of the shared map exactly once when the
\* transaction changed the map, and calls none when it did not; the calls are
\* made while the commit runs, and the commit returns after the last.
C12_ObserversOncePerCommit ==
    /\ fired <= obs
    /\ last.op = "notify" => (phase = "commit" /\ open)
    /\ phase = "idle" => pending = 0
    /\ last.op = "commit"
            => /\ phase = "idle" /\ ~open /\ pending = 0
               /\ fired = IF /\ last.pre.self.tag = "Integrated"
                              /\ last.pre.view /= last.pre.doc
                           THEN obs ELSE 0

\* A commit of a changed map with two observers has returned.
C12_Witness ==
    /\ last.op = "commit" /\ last.pre.view /= last.pre.doc
    /\ obs = 2 /\ fired = 2

\* C13: the keys of an event read while its commit runs are the keys whose
\* entry differs between the document and the transaction: "add" with the
\* new value for a key that was absent, "delete" with the old value for a
\* key that is gone, "update" with both for a key whose value changed.
C13_EventKeys ==
    (last.op = "keys" /\ ev.st = "live")
        => \A k \in KeyStrs :
            LET was == k \in DOMAIN doc
                is == k \in DOMAIN view
            IN  /\ k \in DOMAIN last.res
                    <=> (was /= is \/ (was /\ is /\ doc[k] /= view[k]))
                /\ (k \in DOMAIN last.res /\ ~was)
                    => last.res[k] = [action |-> "add", oldValue |-> Undefined,
                                      newValue |-> ToPython(view[k])]
                /\ (k \in DOMAIN last.res /\ ~is)
                    => last.res[k] = [action |-> "delete",
                                      oldValue |-> ToPython(doc[k]),
                                      newValue |-> Undefined]
                /\ (k \in DOMAIN last.res /\ was /\ is)
                    => last.res[k] = [action |-> "update",
                                      oldValue |-> ToPython(doc[k]),
                                      newValue |-> ToPython(view[k])]

\* keys of an event for a transaction that changed "a" from 1 to 2 and
\* deleted the other key.
C13_Witness ==
    /\ last.op = "keys" /\ ev.st = "live"
    /\ DOMAIN last.res = KeyStrs
    /\ last.res["a"] = [action |-> "update", oldValue |-> 1, newValue |-> 2]
    /\ last.res[""].action = "delete"

\* C14: an event reads the engine's event at most once for target and at most
\* once for keys; every access returns what the event has cached.
C14_Memoized ==
    /\ ev.nT <= 1 /\ ev.nK <= 1
    /\ ev.nT = (IF ev.target.some THEN 1 ELSE 0)
    /\ ev.nK = (IF ev.keys.some THEN 1 ELSE 0)
    /\ last.op = "target" => (ev.target.some /\ last.res = ev.target.v)
    /\ last.op = "keys" => (ev.keys.some /\ last.res = ev.keys.v)

\* keys read again after the commit returned, target read as well: the dict
\* of the first access comes back.
C14_Witness ==
    /\ last.op = "keys" /\ ev.st = "closed"
    /\ ev.nK = 1 /\ ev.nT = 1 /\ DOMAIN ev.keys.v = KeyStrs

\* ------------------------------------------------------------ frame effects
\* C16: a set(txn, k, v) that returns normally changes key k alone: k holds v,
\* the length is as before when k had an entry and one more when it had none,
\* and every other key has the entry, or the lack of one, it had before.
C16_SetFrame ==
    (last.op = "set" /\ Ok)
        => LET before == LiveKeys(last.pre.self, last.pre.view)
               k == last.key.s
           IN  /\ NowGet(k) = last.val
               /\ LiveKeys(ymap, view) = before \cup {k}
               /\ YMap_length(ymap, view)
                    = YMap_length(last.pre.self, last.pre.view)
                        + (IF k \in before THEN 0 ELSE 1)
               /\ \A j \in KeyStrs \ {k} : NowGet(j) = PreGet(j)
               /\ ymap.tag = last.pre.self.tag

\* set of a key that has an entry, beside another entry, on a shared map.
C16_Witness ==
    /\ last.op = "set" /\ Ok /\ ymap.tag = "Integrated"
    /\ LiveKeys(last.pre.self, last.pre.view) = KeyStrs
    /\ PreGet(last.key.s) /= last.val

\* C18: prelim, length, get, to_json and entries leave the map as it was: the
\* same variant, the same entries, and on a shared map the same view of the
\* transaction and the same document, so that nothing is added to what the
\* commit reports to the observers.
C18_ReadsNoEffect ==
    /\ last.op \in Reads
            => /\ ymap = last.pre.self /\ view = last.pre.view
               /\ doc = last.pre.doc
               /\ ChangedKeys(doc, view) = ChangedKeys(last.pre.doc, last.pre.view)
    /\ \A t \in {NoTxn, Txn} :
            LET r == py_entries(ymap, view, t, iter)
            IN  r.self = ymap /\ r.tv = view

\* get of a key without entry on a shared map, in a transaction that has
\* written another key.
C18_Witness ==
    /\ last.op = "get" /\ Ok /\ last.res = PyNone
    /\ ymap.tag = "Integrated" /\ open
    /\ view /= doc /\ LiveKeys(ymap, view) /= {}

\* The views a transaction passed to a call may hold.
SomeViews ==
    {EmptyMap, view}
        \cup {mapInsert(EmptyMap, k, ToEngine(v)) : k \in KeyStrs, v \in PyValues}

\* C19: on a Prelim map length, to_json, get, set and delete do not depend on
\* the transaction passed: they give the same result and the same table
\* whatever it holds, leave it and the document as they were, and a commit
\* has nothing to report for the map.
C19_PrelimIgnoresTxn ==
    /\ ymap.tag = "Prelim"
        => \A tv \in SomeViews :
            /\ YMap_length(ymap, tv) = YMap_length(ymap, EmptyMap)
            /\ YMap_to_json(ymap, tv) = YMap_to_json(ymap, EmptyMap)
            /\ \A k \in KeyStrs :
                /\ YMap_get(ymap, tv, k) = YMap_get(ymap, EmptyMap, k)
                /\ YMap_delete(ymap, tv, k).self = YMap_delete(ymap, EmptyMap, k).self
                /\ YMap_delete(ymap, tv, k).tv = tv
                /\ \A v \in PyValues :
                    /\ YMap_set(ymap, tv, k, v).self = YMap_set(ymap, EmptyMap, k, v).self
                    /\ YMap_set(ymap, tv, k, v).tv = tv
            /\ \A n \in 0..MaxObs : ToNotify(ymap, doc, tv, n) = 0
    /\ (/\ last.pre.self.tag = "Prelim"
        /\ last.op \in {"length", "to_json", "get", "set", "delete"})
            => (view = last.pre.view /\ doc = last.pre.doc /\ fired = 0)

\* delete of an entry of a Prelim map that holds two, with an open
\* transaction passed.
C19_Witness ==
    /\ last.op = "delete" /\ Ok /\ last.t = Txn /\ open
    /\ last.pre.self.tag = "Prelim" /\ HMLen(last.pre.self.map) = 2
    /\ HMLen(ymap.map) = 1

\* ---------------------------------------------------------------- iterators
\* C17: an iterator made by entries returns every entry the map held when it
\* was made exactly once, then ends and stays ended; __iter__ gives the same
\* iterator and restarts nothing.
C17_IteratorYieldsAllOnce ==
    /\ ~iter.h.bad
    /\ iter.h.got \subseteq iter.h.snap
    /\ iter.h.done => iter.h.got = iter.h.snap
    /\ (last.op = "next" /\ last.it.h.done) => last.res = Stop
    /\ last.op = "iter" => iter = last.it

\* C20: __next__ of an iterator made by entries on a Prelim map is called
\* only while the table is as it was when the iterator was made, and each pair
\* it returns is an entry the table holds at that moment.
C20_PrelimIteratorSafe ==
    (last.op = "next" /\ last.it.kind = "Prelim")
        => /\ last.it.st = "live"
           /\ last.res.tag /= "crash"
           /\ last.res.tag = "item"
                => /\ ymap.tag = "Prelim"
                   /\ <<last.res.k, last.res.v>>
                        \in Pairs(toDict(EmptyDict, ymap.map))

=============================================================================
